---- MODULE Spec2Model ----
(***************************************************************************)
(* Deployment orchestration of the review-apps repository.                 *)
(*                                                                         *)
(* Two webhook routes act on the deployment table:                         *)
(*   - the queued route (src/unnamed/part_017 with the helpers of          *)
(*     src/unnamed/part_005): POST pushes a job on the in-memory           *)
(*     deploymentQueue, one serial worker (processQueue) runs the jobs     *)
(*     handleDeploymentCreation / handleDeploymentCleanup.  Specification  *)
(*     Spec.                                                               *)
(*   - the direct route (src/app/api/webhooks/github/route.ts with         *)
(*     DeploymentService of src/src/lib/fly/deployment-service.ts): every  *)
(*     POST runs build-and-deploy or destroy inside the request; requests  *)
(*     interleave at their awaits.  Specification SpecDirect.              *)
(*                                                                         *)
(* Time is counted in minutes.  Every database statement is one step; the  *)
(* database is assumed available (a statement fails only on the unique     *)
(* constraint of fly_app_name); the GitHub comment API, the clone, the     *)
(* build and the Fly.io platform may fail.                                 *)
(***************************************************************************)
EXTENDS Integers, Sequences, FiniteSets, TLC

\* ------------------------------------------------------- program constants
CooldownMinutes == 5
MaxCommentAttempts == 2

\* ------------------------------------------------------------------ bounds
MaxDeliveries == 3
MaxTicks == 2
MaxPR == 1
NumSuffixes == 2
MaxToggles == 1
MaxRequests == 2

NoTime == 0 - 1

ProjectIds == {"p1", "p2"}
PrNumbers == 1..MaxPR

\* The clock is observed at the instants 0, 1, 1 + 5, 1 + 10, ... (minutes), so
\* that ages of 1, 5 and 6 minutes occur.
TimeAt(k) == IF k = 0 THEN 0 ELSE 1 + (k - 1) * CooldownMinutes

\* pull_request.head of a delivery: every delivery carries a commit of its own
\* (the commit of delivery k is k), on one of two branches.
HeadOf(delivery) == [sha |-> delivery, ref |-> IF delivery % 2 = 1 THEN "feature" ELSE "hotfix"]

\* PullRequestAction values delivered to the webhook ("edited" stands for the
\* actions outside SUPPORTED_PR_ACTIONS).
PrActions == {"opened", "synchronize", "reopened", "closed", "edited"}
SUPPORTED_PR_ACTIONS == {"opened", "synchronize", "reopened", "closed"}

shouldTriggerDeployment(action) == action \in {"opened", "synchronize", "reopened"}

shouldCleanupDeployment(action) == action = "closed"

\* The status enum of the deployment table.
DeploymentStatuses ==
  {"pending", "building", "deploying", "ready", "failed", "destroying", "destroyed"}

\* projectConfig.flyAppNamePrefix || projectConfig.repoName: both projects are
\* repositories named "web" of different owners and set no prefix.
AppNamePrefix(projectId) == "web"

\* `${basePrefix}-pr-${prNumber}`, and the same with a random suffix appended.
\* suffix 0 stands for "no suffix".
AppName(basePrefix, prNumber, suffix) ==
  [prefix |-> basePrefix, pr |-> prNumber, suffix |-> suffix]

NoName == AppName("", 0, 0)

NoHead == [sha |-> 0, ref |-> ""]

NoDeployment ==
  [id |-> 0, projectId |-> "", prNumber |-> 0, branch |-> "", commitSha |-> 0,
   flyAppName |-> NoName, previewUrl |-> NoName, status |-> "none", errorMessage |-> "",
   startedAt |-> NoTime, completedAt |-> NoTime, destroyedAt |-> NoTime,
   createdAt |-> NoTime, updatedAt |-> NoTime]

NoJob == [delivery |-> 0, projectId |-> "", prNumber |-> 0, head |-> NoHead, action |-> ""]

IdleWorker ==
  [pc |-> "idle", job |-> NoJob, shouldProcess |-> FALSE,
   existingDeployment |-> NoDeployment, flyAppName |-> NoName, attempt |-> 0]

VARIABLES
  projects,           \* project table: projectId -> [isActive]
  deployments,        \* deployment table: a set of rows
  nextId,             \* next primary key (gen_random_uuid: never reused)
  now,                \* wall clock, minutes
  deliveries,         \* webhook deliveries received so far
  deploymentQueue,    \* part_017: the in-memory job queue
  isProcessingQueue,  \* part_017: the worker's busy flag
  immediates,         \* setImmediate(processQueue) callbacks not yet run
  worker,             \* position and locals of the job processQueue is awaiting
  comments,           \* comments posted on pull requests, in order
  failedJobs,         \* deliveries whose job threw (logError in processQueue)
  toggles,            \* changes of a project's active flag so far
  decisions,          \* history: what each job's handleConcurrentPREvents call decided
  requests,           \* direct route: the POST handlers, each with its position
  flyApps,            \* direct route: the app names that exist on the platform
  tempDirs,           \* direct route: the deployments whose clone directory exists
  deliveryCache,      \* webhook-security: delivery id -> entry of the replay cache
  rateLimitCache,     \* webhook-security: source address -> entry of the rate-limit cache
  ingress,            \* history: per delivery id, what arrived and what was processed
  response,           \* history: the last request of the ingress and its HTTP status
  accepted,           \* history: per source address, when its requests passed the rate check
  nameCall,           \* the call of generateUniqueFlyAppName under study
  cleanupResult,      \* runCleanupJobs: its runs so far and what the last one returned
  activations,        \* the processQueue calls that are awaiting a job
  startedJobs         \* the jobs processQueue has shifted and started, in order

\* The variables only the direct route writes / only the queued route writes.
directVars == <<requests, flyApps, tempDirs>>
queueVars == <<deploymentQueue, isProcessingQueue, immediates, worker, failedJobs, decisions>>
runVars == <<activations, startedJobs>>

ingressVars == <<deliveryCache, rateLimitCache, ingress, response, accepted>>

vars ==
  <<projects, deployments, nextId, now, deliveries, deploymentQueue,
    isProcessingQueue, immediates, worker, comments, failedJobs, toggles,
    decisions, requests, flyApps, tempDirs, deliveryCache, rateLimitCache,
    ingress, response, accepted, nameCall, cleanupResult, activations, startedJobs>>

\* ------------------------------------------------------------ the database

\* A row as an earlier run of the service left it.
StoredRow(projectId, prNumber, status) ==
  [id |-> 1, projectId |-> projectId, prNumber |-> prNumber,
   branch |-> "feature", commitSha |-> 0,
   flyAppName |-> AppName(AppNamePrefix(projectId), prNumber, 0),
   previewUrl |-> IF status = "ready"
                  THEN AppName(AppNamePrefix(projectId), prNumber, 0) ELSE NoName,
   status |-> status, errorMessage |-> IF status = "failed" THEN "build failed" ELSE "",
   startedAt |-> 0,
   completedAt |-> IF status \in {"ready", "failed"} THEN 0 ELSE NoTime,
   destroyedAt |-> IF status = "destroyed" THEN 0 ELSE NoTime,
   createdAt |-> 0, updatedAt |-> 0]

RowsOf(projectId, prNumber) ==
  {d \in deployments : d.projectId = projectId /\ d.prNumber = prNumber}

\* .orderBy(desc(deployment.createdAt)).limit(1).  createdAt has microsecond
\* resolution and the rows of a pair are inserted by sequential statements, so
\* rows created within the same minute are ordered by their insertion (id).
LatestDeployment(projectId, prNumber) ==
  LET ds == RowsOf(projectId, prNumber)
  IN IF ds = {} THEN NoDeployment
     ELSE CHOOSE d \in ds :
            \A e \in ds : \/ e.createdAt < d.createdAt
                          \/ (e.createdAt = d.createdAt /\ e.id <= d.id)

\* A variant of verifyProjectActive that only checks that the project exists.
verifyProjectActive_ExistsOnly(projectId) == projectId \in DOMAIN projects

verifyProjectActive(projectId) ==
  projectId \in DOMAIN projects /\ projects[projectId].isActive

\* Variants of handleConcurrentPREvents, each with one of its checks changed.
handleConcurrentPREvents_NoInFlightCheck(projectId, prNumber, action) ==
  LET latest == LatestDeployment(projectId, prNumber)
      exists == latest # NoDeployment
  IN IF action \in {"open", "reopen"}
     THEN IF exists /\ latest.status = "ready"
             /\ latest.createdAt > now - CooldownMinutes
          THEN [shouldProcess |-> FALSE, existingDeployment |-> latest]
          ELSE [shouldProcess |-> TRUE, existingDeployment |-> latest]
     ELSE IF action = "close"
     THEN IF exists /\ latest.status \notin {"destroying", "destroyed"}
          THEN [shouldProcess |-> TRUE, existingDeployment |-> latest]
          ELSE [shouldProcess |-> FALSE, existingDeployment |-> NoDeployment]
     ELSE [shouldProcess |-> FALSE, existingDeployment |-> NoDeployment]

handleConcurrentPREvents_PendingNotInFlight(projectId, prNumber, action) ==
  LET latest == LatestDeployment(projectId, prNumber)
      exists == latest # NoDeployment
  IN IF action \in {"open", "reopen"}
     THEN IF exists /\ latest.status \in {"building", "deploying"}
          THEN [shouldProcess |-> FALSE, existingDeployment |-> latest]
          ELSE IF exists /\ latest.status = "ready"
                  /\ latest.createdAt > now - CooldownMinutes
          THEN [shouldProcess |-> FALSE, existingDeployment |-> latest]
          ELSE [shouldProcess |-> TRUE, existingDeployment |-> latest]
     ELSE IF action = "close"
     THEN IF exists /\ latest.status \notin {"destroying", "destroyed"}
          THEN [shouldProcess |-> TRUE, existingDeployment |-> latest]
          ELSE [shouldProcess |-> FALSE, existingDeployment |-> NoDeployment]
     ELSE [shouldProcess |-> FALSE, existingDeployment |-> NoDeployment]

handleConcurrentPREvents_CooldownReversed(projectId, prNumber, action) ==
  LET latest == LatestDeployment(projectId, prNumber)
      exists == latest # NoDeployment
  IN IF action \in {"open", "reopen"}
     THEN IF exists /\ latest.status \in {"pending", "building", "deploying"}
          THEN [shouldProcess |-> FALSE, existingDeployment |-> latest]
          ELSE IF exists /\ latest.status = "ready"
                  /\ latest.createdAt < now - CooldownMinutes
          THEN [shouldProcess |-> FALSE, existingDeployment |-> latest]
          ELSE [shouldProcess |-> TRUE, existingDeployment |-> latest]
     ELSE IF action = "close"
     THEN IF exists /\ latest.status \notin {"destroying", "destroyed"}
          THEN [shouldProcess |-> TRUE, existingDeployment |-> latest]
          ELSE [shouldProcess |-> FALSE, existingDeployment |-> NoDeployment]
     ELSE [shouldProcess |-> FALSE, existingDeployment |-> NoDeployment]

handleConcurrentPREvents_CloseAlways(projectId, prNumber, action) ==
  LET latest == LatestDeployment(projectId, prNumber)
      exists == latest # NoDeployment
  IN IF action \in {"open", "reopen"}
     THEN IF exists /\ latest.status \in {"pending", "building", "deploying"}
          THEN [shouldProcess |-> FALSE, existingDeployment |-> latest]
          ELSE IF exists /\ latest.status = "ready"
                  /\ latest.createdAt > now - CooldownMinutes
          THEN [shouldProcess |-> FALSE, existingDeployment |-> latest]
          ELSE [shouldProcess |-> TRUE, existingDeployment |-> latest]
     ELSE IF action = "close"
     THEN [shouldProcess |-> TRUE, existingDeployment |-> latest]
     ELSE [shouldProcess |-> FALSE, existingDeployment |-> NoDeployment]

handleConcurrentPREvents(projectId, prNumber, action) ==
  LET latest == LatestDeployment(projectId, prNumber)
      exists == latest # NoDeployment
  IN IF action \in {"open", "reopen"}
     THEN IF exists /\ latest.status \in {"pending", "building", "deploying"}
          THEN [shouldProcess |-> FALSE, existingDeployment |-> latest]
          ELSE IF exists /\ latest.status = "ready"
                  /\ latest.createdAt > now - CooldownMinutes
          THEN [shouldProcess |-> FALSE, existingDeployment |-> latest]
          ELSE [shouldProcess |-> TRUE, existingDeployment |-> latest]
     ELSE IF action = "close"
     THEN IF exists /\ latest.status \notin {"destroying", "destroyed"}
          THEN [shouldProcess |-> TRUE, existingDeployment |-> latest]
          ELSE [shouldProcess |-> FALSE, existingDeployment |-> NoDeployment]
     ELSE [shouldProcess |-> FALSE, existingDeployment |-> NoDeployment]

\* The names generateUniqueFlyAppName may return: the base name unless a live
\* deployment of another project holds it, else the base name with a random suffix.
generateUniqueFlyAppName(basePrefix, prNumber, projectId) ==
  LET baseName == AppName(basePrefix, prNumber, 0)
      existing == {d \in deployments :
                     /\ d.flyAppName = baseName
                     /\ d.projectId # projectId
                     /\ d.status \in {"ready", "pending", "building", "deploying"}}
  IN IF existing = {} THEN {baseName}
     ELSE {AppName(basePrefix, prNumber, s) : s \in 1..NumSuffixes}

\* fly_app_name carries a unique constraint: an insert of a taken name fails.
UniqueViolation(flyAppName) == \E d \in deployments : d.flyAppName = flyAppName

\* A variant of ResetRow that also restarts the row's creation time.
ResetRow_NewCreatedAt(d, head) ==
  [d EXCEPT !.commitSha = head.sha, !.branch = head.ref, !.status = "pending",
            !.updatedAt = now, !.startedAt = now, !.completedAt = NoTime,
            !.errorMessage = "", !.createdAt = now]

\* handleDeploymentCreation, the reset of a ready row found by the decision.
ResetRow(d, head) ==
  [d EXCEPT !.commitSha = head.sha, !.branch = head.ref, !.status = "pending",
            !.updatedAt = now, !.startedAt = now, !.completedAt = NoTime,
            !.errorMessage = ""]

\* handleDeploymentCreation, the row of a new deployment.
NewRow(job, flyAppName) ==
  [id |-> nextId, projectId |-> job.projectId, prNumber |-> job.prNumber,
   branch |-> job.head.ref, commitSha |-> job.head.sha, flyAppName |-> flyAppName,
   previewUrl |-> NoName, status |-> "pending", errorMessage |-> "", startedAt |-> now,
   completedAt |-> NoTime, destroyedAt |-> NoTime, createdAt |-> now,
   updatedAt |-> now]

\* handleDeploymentCleanup: the rows its select and its first update match.
CleanupTargets(projectId, prNumber) ==
  {d \in RowsOf(projectId, prNumber) : d.status \notin {"destroyed", "destroying"}}

MarkDestroying(d) == [d EXCEPT !.status = "destroying", !.updatedAt = now]

MarkDestroyed(d) ==
  [d EXCEPT !.status = "destroyed", !.destroyedAt = now, !.updatedAt = now]

\* The transition a job takes on the answer of handleConcurrentPREvents: the
\* branches of handleDeploymentCreation (create) and handleDeploymentCleanup.
Transition(create, r) ==
  IF create
  THEN IF ~r.shouldProcess
       THEN IF r.existingDeployment.status = "ready" THEN "SkipCooldown" ELSE "SkipInFlight"
       ELSE IF r.existingDeployment # NoDeployment /\ r.existingDeployment.status = "ready"
       THEN "ResetAndRedeploy" ELSE "CreateNew"
  ELSE IF r.shouldProcess THEN "Destroy" ELSE "SkipNoop"

\* The history entry of a decision: the job, the latest row it read and its age.
Decision(job, create, r) ==
  LET latest == LatestDeployment(job.projectId, job.prNumber)
  IN [delivery |-> job.delivery, projectId |-> job.projectId, prNumber |-> job.prNumber,
      transition |-> Transition(create, r),
      latestId |-> latest.id, latestStatus |-> latest.status,
      age |-> IF latest = NoDeployment THEN 0 ELSE now - latest.createdAt]

\* ------------------------------------------------- the ingress of the webhook

\* ttl of deliveryCache and of rateLimitCache, in minutes; DEFAULT_OPTIONS.
ReplayTtlMinutes == 60
RateLimitTtlMinutes == 1
maxRequestsPerMinute == 30

MaxPosts == 3
MaxDeliveryIds == 2

DeliveryIds == 1..MaxDeliveryIds
SourceIps == {"ip1", "ip2"}
WebhookEvents == {"pull_request", "ping", "push"}
allowedEvents == {"pull_request", "ping"}

\* The instants at which the ingress is observed, in minutes.
IngressTimes == <<0, 2, 61>>

\* An LRUCache entry: the value and the time of its set; NoEntry: the key is absent.
NoEntry == [value |-> 0, at |-> NoTime]
CacheSet(value) == [value |-> value, at |-> now]
\* lru-cache: an entry is stale, and has / get do not see it, once its age exceeds the ttl.
CacheHas(entry, ttl) == entry.at # NoTime /\ now - entry.at <= ttl

NoResponse == [deliveryId |-> 0, event |-> "", sourceIp |-> "", signed |-> FALSE,
               oversized |-> FALSE, status |-> 0]
NoArrivals ==
  [intact |-> 0, other |-> 0, processed |-> 0, firstAt |-> NoTime, lastAt |-> NoTime,
   cachedAt |-> NoTime]

\* deliveryCache: max, the number of entries the cache holds.
deliveryCacheMax == 1000

\* An entry of deliveryCache: its value, the time of its set and the number of entries
\* (of any delivery id) set after it; NoDelivery: the key is absent.
NoDelivery == [value |-> 0, at |-> NoTime, newer |-> 0]

\* deliveryCache.set(deliveryId, true): the entry becomes the most recently used one;
\* every entry that was more recent has one more entry after it, and the least recently
\* used entry is dropped when the set makes the cache exceed max.
DeliverySet(deliveryId) ==
  LET old == deliveryCache[deliveryId]
  IN [i \in DOMAIN deliveryCache |->
        IF i = deliveryId THEN [value |-> 1, at |-> now, newer |-> 0]
        ELSE IF deliveryCache[i] = NoDelivery THEN NoDelivery
        ELSE IF old # NoDelivery /\ deliveryCache[i].newer > old.newer THEN deliveryCache[i]
        ELSE IF deliveryCache[i].newer + 1 >= deliveryCacheMax THEN NoDelivery
        ELSE [deliveryCache[i] EXCEPT !.newer = @ + 1]]

\* validateWebhookSecurity: the code of the WebhookSecurityError it throws ("ok":
\* it returns) and the two caches as it leaves them.
validateWebhookSecurity(deliveryId, event, sourceIp, oversized) ==
  LET currentCount ==
        IF CacheHas(rateLimitCache[sourceIp], RateLimitTtlMinutes)
        THEN rateLimitCache[sourceIp].value ELSE 0
      cached == DeliverySet(deliveryId)
  IN IF oversized
     THEN [code |-> "PAYLOAD_SIZE", deliveryCache |-> deliveryCache,
           rateLimitCache |-> rateLimitCache]
     ELSE IF event \notin allowedEvents
     THEN [code |-> "INVALID_EVENT", deliveryCache |-> deliveryCache,
           rateLimitCache |-> rateLimitCache]
     ELSE IF CacheHas(deliveryCache[deliveryId], ReplayTtlMinutes)
     THEN [code |-> "REPLAY", deliveryCache |-> deliveryCache,
           rateLimitCache |-> rateLimitCache]
     ELSE IF currentCount >= maxRequestsPerMinute
     THEN [code |-> "RATE_LIMIT", deliveryCache |-> cached,
           rateLimitCache |-> rateLimitCache]
     ELSE [code |-> "ok", deliveryCache |-> cached,
           rateLimitCache |->
             [rateLimitCache EXCEPT ![sourceIp] = CacheSet(currentCount + 1)]]

\* The ingress before its first request: both caches empty.
IngressIdle ==
  /\ deliveryCache = [i \in DeliveryIds |-> NoDelivery]
  /\ rateLimitCache = [a \in SourceIps |-> NoEntry]
  /\ ingress = [i \in DeliveryIds |-> NoArrivals]
  /\ response = NoResponse
  /\ accepted = [a \in SourceIps |-> <<>>]

NoNameCall == [pc |-> "idle"]

NoCleanup == [runs |-> 0, orphaned |-> 0, old |-> 0]

\* ------------------------------------------------------------------- Init

Init ==
  /\ projects = [p \in ProjectIds |-> [isActive |-> TRUE]]
  /\ \E rows \in {{}} \cup {{StoredRow("p1", 1, s)} : s \in DeploymentStatuses} :
       /\ deployments = rows
       /\ nextId = Cardinality(rows) + 1
  /\ now = 0
  /\ deliveries = 0
  /\ deploymentQueue = <<>>
  /\ isProcessingQueue = FALSE
  /\ immediates = 0
  /\ worker = IdleWorker
  /\ comments = <<>>
  /\ failedJobs = {}
  /\ toggles = 0
  /\ decisions = <<>>
  /\ requests = <<>>
  /\ flyApps = {}
  /\ tempDirs = {}
  /\ IngressIdle
  /\ nameCall = NoNameCall
  /\ cleanupResult = NoCleanup
  /\ activations = {}
  /\ startedJobs = <<>>

\* ---------------------------------------------------------------- actions

\* A minute does not pass between a POST and the setImmediate callback it
\* scheduled (the callback runs in the same turn of the event loop).
Tick ==
  /\ immediates = 0
  /\ \E k \in 1..MaxTicks : now = TimeAt(k - 1) /\ now' = TimeAt(k)
  /\ UNCHANGED <<projects, deployments, nextId, deliveries, deploymentQueue,
                 isProcessingQueue, immediates, worker, comments, failedJobs, toggles, decisions, directVars, ingressVars, cleanupResult, nameCall, runVars>>

\* The repository webhook (archived / unarchived) and PATCH /api/projects/[id].
SetProjectActive ==
  \E p \in DOMAIN projects, b \in BOOLEAN :
    /\ immediates = 0
    /\ toggles < MaxToggles
    /\ toggles' = toggles + 1
    /\ projects[p].isActive # b
    /\ projects' = [projects EXCEPT ![p].isActive = b]
    /\ UNCHANGED <<deployments, nextId, now, deliveries, deploymentQueue,
                   isProcessingQueue, immediates, worker, comments, failedJobs,
                   decisions, directVars, ingressVars, cleanupResult, nameCall, runVars>>

\* POST of the queued route, for a verified pull_request delivery.
WebhookPost ==
  \E p \in ProjectIds, n \in PrNumbers, a \in PrActions :
    /\ deliveries < MaxDeliveries
    /\ deliveries' = deliveries + 1
    /\ IF a \in SUPPORTED_PR_ACTIONS /\ projects[p].isActive
       THEN /\ deploymentQueue' =
                 Append(deploymentQueue,
                        [delivery |-> deliveries + 1, projectId |-> p,
                         prNumber |-> n, head |-> HeadOf(deliveries + 1),
                         action |-> a])
            /\ immediates' = immediates + 1
       ELSE UNCHANGED <<deploymentQueue, immediates>>
    /\ UNCHANGED <<projects, deployments, nextId, now, isProcessingQueue,
                   worker, comments, failedJobs, toggles, decisions, directVars, ingressVars, cleanupResult, nameCall, runVars>>

\* processQueue, called by setImmediate.
ProcessQueueCall ==
  /\ immediates > 0
  /\ immediates' = immediates - 1
  /\ IF isProcessingQueue \/ Len(deploymentQueue) = 0
     THEN UNCHANGED <<isProcessingQueue, worker>>
     ELSE /\ isProcessingQueue' = TRUE
          /\ worker' = [IdleWorker EXCEPT !.pc = "loop"]
  /\ UNCHANGED <<projects, deployments, nextId, now, deliveries, deploymentQueue,
                 comments, failedJobs, toggles, decisions, directVars, ingressVars, cleanupResult, nameCall, runVars>>

\* processQueue, one turn of its while loop: shift a job and start it, or leave.
ProcessQueueLoop ==
  /\ worker.pc = "loop"
  /\ IF Len(deploymentQueue) > 0
     THEN /\ worker' = [IdleWorker EXCEPT
                          !.job = Head(deploymentQueue),
                          !.pc = IF shouldTriggerDeployment(Head(deploymentQueue).action)
                                 THEN "create_verify" ELSE "cleanup_verify"]
          /\ deploymentQueue' = Tail(deploymentQueue)
          /\ UNCHANGED isProcessingQueue
     ELSE /\ worker' = IdleWorker
          /\ isProcessingQueue' = FALSE
          /\ UNCHANGED deploymentQueue
  /\ UNCHANGED <<projects, deployments, nextId, now, deliveries, immediates,
                 comments, failedJobs, toggles, decisions, directVars, ingressVars, cleanupResult, nameCall, runVars>>

\* The job returned: back to the while loop.
JobReturned == [IdleWorker EXCEPT !.pc = "loop"]

\* handleDeploymentCreation / handleDeploymentCleanup: verifyProjectActive.
VerifyProject ==
  /\ worker.pc \in {"create_verify", "cleanup_verify"}
  /\ worker' =
       IF verifyProjectActive(worker.job.projectId)
       THEN [worker EXCEPT !.pc = IF worker.pc = "create_verify"
                                  THEN "create_decide" ELSE "cleanup_decide"]
       ELSE JobReturned
  /\ UNCHANGED <<projects, deployments, nextId, now, deliveries, deploymentQueue,
                 isProcessingQueue, immediates, comments, failedJobs, toggles, decisions, directVars, ingressVars, cleanupResult, nameCall, runVars>>

\* handleDeploymentCreation: handleConcurrentPREvents and the branch on its result.
CreateDecide ==
  /\ worker.pc = "create_decide"
  /\ LET r == handleConcurrentPREvents(
                worker.job.projectId, worker.job.prNumber,
                IF worker.job.action = "opened" THEN "open" ELSE "reopen")
     IN /\ worker' =
             IF ~r.shouldProcess THEN JobReturned
             ELSE [worker EXCEPT
                     !.shouldProcess = TRUE,
                     !.existingDeployment = r.existingDeployment,
                     !.pc = IF r.existingDeployment # NoDeployment
                               /\ r.existingDeployment.status = "ready"
                            THEN "create_reset" ELSE "create_name"]
        /\ decisions' = Append(decisions, Decision(worker.job, TRUE, r))
  /\ UNCHANGED <<projects, deployments, nextId, now, deliveries, deploymentQueue,
                 isProcessingQueue, immediates, comments, failedJobs, toggles,
                 directVars, ingressVars, cleanupResult, nameCall, runVars>>

\* handleDeploymentCreation: the update that resets the existing row.
CreateReset ==
  /\ worker.pc = "create_reset"
  /\ deployments' =
       {IF d.id = worker.existingDeployment.id THEN ResetRow(d, worker.job.head) ELSE d :
          d \in deployments}
  /\ worker' = [worker EXCEPT !.pc = "create_comment", !.attempt = 1]
  /\ UNCHANGED <<projects, nextId, now, deliveries, deploymentQueue,
                 isProcessingQueue, immediates, comments, failedJobs, toggles, decisions, directVars, ingressVars, cleanupResult, nameCall, runVars>>

\* handleDeploymentCreation: generateUniqueFlyAppName.
CreateName ==
  /\ worker.pc = "create_name"
  /\ \E name \in generateUniqueFlyAppName(
                   AppNamePrefix(worker.job.projectId), worker.job.prNumber,
                   worker.job.projectId) :
       worker' = [worker EXCEPT !.flyAppName = name, !.pc = "create_insert"]
  /\ UNCHANGED <<projects, deployments, nextId, now, deliveries, deploymentQueue,
                 isProcessingQueue, immediates, comments, failedJobs, toggles, decisions, directVars, ingressVars, cleanupResult, nameCall, runVars>>

\* handleDeploymentCreation: the insert; a taken name makes it throw.
CreateInsert ==
  /\ worker.pc = "create_insert"
  /\ IF UniqueViolation(worker.flyAppName)
     THEN /\ worker' = JobReturned
          /\ failedJobs' = failedJobs \cup {worker.job.delivery}
          /\ UNCHANGED <<deployments, nextId>>
     ELSE /\ deployments' = deployments \cup {NewRow(worker.job, worker.flyAppName)}
          /\ nextId' = nextId + 1
          /\ worker' = [worker EXCEPT !.pc = "create_comment", !.attempt = 1]
          /\ UNCHANGED failedJobs
  /\ UNCHANGED <<projects, now, deliveries, deploymentQueue, isProcessingQueue,
                 immediates, comments, toggles, decisions, directVars, ingressVars, cleanupResult, nameCall, runVars>>

\* withRetry(() => postDeploymentComment / postComment, { maxAttempts: 2 }):
\* one attempt; the GitHub API answers, fails retryably (5xx, reset) or fails.
PostComment ==
  /\ worker.pc \in {"create_comment", "cleanup_comment"}
  /\ \E outcome \in {"ok", "retryable", "fatal"} :
       IF outcome = "ok"
       THEN /\ comments' =
                 Append(comments,
                        [delivery |-> worker.job.delivery,
                         projectId |-> worker.job.projectId,
                         prNumber |-> worker.job.prNumber,
                         kind |-> IF worker.pc = "create_comment"
                                  THEN "pending" ELSE "removed"])
            /\ worker' = JobReturned
            /\ UNCHANGED failedJobs
       ELSE IF outcome = "retryable" /\ worker.attempt < MaxCommentAttempts
       THEN /\ worker' = [worker EXCEPT !.attempt = worker.attempt + 1]
            /\ UNCHANGED <<comments, failedJobs>>
       ELSE /\ worker' = JobReturned
            /\ failedJobs' = failedJobs \cup {worker.job.delivery}
            /\ UNCHANGED comments
  /\ UNCHANGED <<projects, deployments, nextId, now, deliveries, deploymentQueue,
                 isProcessingQueue, immediates, toggles, decisions, directVars, ingressVars, cleanupResult, nameCall, runVars>>

\* handleDeploymentCleanup: handleConcurrentPREvents(..., 'close').
CleanupDecide ==
  /\ worker.pc = "cleanup_decide"
  /\ LET r == handleConcurrentPREvents(
                worker.job.projectId, worker.job.prNumber, "close")
     IN /\ worker' =
             IF ~r.shouldProcess THEN JobReturned
             ELSE [worker EXCEPT !.shouldProcess = TRUE, !.pc = "cleanup_select"]
        /\ decisions' = Append(decisions, Decision(worker.job, FALSE, r))
  /\ UNCHANGED <<projects, deployments, nextId, now, deliveries, deploymentQueue,
                 isProcessingQueue, immediates, comments, failedJobs, toggles,
                 directVars, ingressVars, cleanupResult, nameCall, runVars>>

\* handleDeploymentCleanup: the select of the rows to clean up.
CleanupSelect ==
  /\ worker.pc = "cleanup_select"
  /\ worker' =
       IF CleanupTargets(worker.job.projectId, worker.job.prNumber) = {}
       THEN JobReturned
       ELSE [worker EXCEPT !.pc = "cleanup_mark"]
  /\ UNCHANGED <<projects, deployments, nextId, now, deliveries, deploymentQueue,
                 isProcessingQueue, immediates, comments, failedJobs, toggles, decisions, directVars, ingressVars, cleanupResult, nameCall, runVars>>

\* handleDeploymentCleanup: the update to 'destroying'.
CleanupMark ==
  /\ worker.pc = "cleanup_mark"
  /\ deployments' =
       {IF d \in CleanupTargets(worker.job.projectId, worker.job.prNumber)
        THEN MarkDestroying(d) ELSE d : d \in deployments}
  /\ worker' = [worker EXCEPT !.pc = "cleanup_destroy"]
  /\ UNCHANGED <<projects, nextId, now, deliveries, deploymentQueue,
                 isProcessingQueue, immediates, comments, failedJobs, toggles, decisions, directVars, ingressVars, cleanupResult, nameCall, runVars>>

\* handleDeploymentCleanup: the update of the 'destroying' rows to 'destroyed'.
CleanupDestroy ==
  /\ worker.pc = "cleanup_destroy"
  /\ deployments' =
       {IF d \in RowsOf(worker.job.projectId, worker.job.prNumber)
           /\ d.status = "destroying"
        THEN MarkDestroyed(d) ELSE d : d \in deployments}
  /\ worker' = [worker EXCEPT !.pc = "cleanup_comment", !.attempt = 1]
  /\ UNCHANGED <<projects, nextId, now, deliveries, deploymentQueue,
                 isProcessingQueue, immediates, comments, failedJobs, toggles, decisions, directVars, ingressVars, cleanupResult, nameCall, runVars>>

Next ==
  \/ Tick
  \/ SetProjectActive
  \/ WebhookPost
  \/ ProcessQueueCall
  \/ ProcessQueueLoop
  \/ VerifyProject
  \/ CreateDecide
  \/ CreateReset
  \/ CreateName
  \/ CreateInsert
  \/ PostComment
  \/ CleanupDecide
  \/ CleanupSelect
  \/ CleanupMark
  \/ CleanupDestroy

Spec == Init /\ [][Next]_vars

\* ============================================================ direct route
\* src/app/api/webhooks/github/route.ts with DeploymentService: every POST
\* runs its whole workflow inside the request; requests run concurrently and
\* interleave at their awaits.  The status of a live preview is 'active' here.

DirectStatuses == {"pending", "building", "deploying", "active", "failed", "destroyed"}

NoRequest ==
  [pc |-> "done", delivery |-> 0, projectId |-> "", prNumber |-> 0, action |-> "",
   head |-> NoHead, caller |-> "", target |-> 0, deploymentId |-> 0, error |-> ""]

\* Requests still inside the handler.
Running == {r \in DOMAIN requests : requests[r].pc # "done"}

\* The response was sent: only what the delivery was is kept.
Responded(req) ==
  [NoRequest EXCEPT !.delivery = req.delivery, !.projectId = req.projectId,
                    !.prNumber = req.prNumber, !.action = req.action]

\* DeploymentService.generateAppName: `pr-${prNumber}-${cleanRepo}`; the owner
\* is not part of the name.  Both projects' repositories are named "web".
generateAppName(projectId, prNumber) == AppName("pr-web", prNumber, 0)

\* DeploymentService.createDeploymentRecord: the inserted row.
createDeploymentRecord(deploymentId, req, appName) ==
  [id |-> deploymentId, projectId |-> req.projectId, prNumber |-> req.prNumber,
   branch |-> "", commitSha |-> req.head.sha, flyAppName |-> appName,
   previewUrl |-> NoName, status |-> "pending", errorMessage |-> "",
   startedAt |-> now, completedAt |-> NoTime, destroyedAt |-> NoTime,
   createdAt |-> now, updatedAt |-> now]

\* The table after DeploymentService.updateDeploymentStatus.
updateDeploymentStatus(deploymentId, status) ==
  {IF d.id = deploymentId THEN [d EXCEPT !.status = status, !.updatedAt = now] ELSE d :
     d \in deployments}

\* The table after DeploymentService.updateDeploymentComplete.
updateDeploymentComplete(deploymentId) ==
  {IF d.id = deploymentId
   THEN [d EXCEPT !.status = "active", !.previewUrl = d.flyAppName,
                  !.completedAt = now, !.updatedAt = now]
   ELSE d : d \in deployments}

\* The table after DeploymentService.handleDeploymentError.
handleDeploymentError(deploymentId, message) ==
  {IF d.id = deploymentId
   THEN [d EXCEPT !.status = "failed", !.errorMessage = message,
                  !.completedAt = now, !.updatedAt = now]
   ELSE d : d \in deployments}

RowById(deploymentId) == CHOOSE d \in deployments : d.id = deploymentId

CommentOf(req, kind) ==
  [delivery |-> req.delivery, projectId |-> req.projectId,
   prNumber |-> req.prNumber, kind |-> kind]

\* A deployment as an earlier request of the direct route left it: deployed,
\* its app on the platform.
StoredActiveRow(projectId, prNumber) ==
  [id |-> 1, projectId |-> projectId, prNumber |-> prNumber,
   branch |-> "", commitSha |-> 0,
   flyAppName |-> generateAppName(projectId, prNumber),
   previewUrl |-> generateAppName(projectId, prNumber),
   status |-> "active", errorMessage |-> "", startedAt |-> 0, completedAt |-> 0,
   destroyedAt |-> NoTime, createdAt |-> 0, updatedAt |-> 0]

InitDirect ==
  /\ projects = [p \in ProjectIds |-> [isActive |-> TRUE]]
  /\ \E rows \in {{}, {StoredActiveRow("p1", 1)}} :
       /\ deployments = rows
       /\ nextId = Cardinality(rows) + 1
       /\ flyApps = {d.flyAppName : d \in rows}
  /\ now = 0
  /\ deliveries = 0
  /\ deploymentQueue = <<>>
  /\ isProcessingQueue = FALSE
  /\ immediates = 0
  /\ worker = IdleWorker
  /\ comments = <<>>
  /\ failedJobs = {}
  /\ toggles = 0
  /\ decisions = <<>>
  /\ requests = <<>>
  /\ tempDirs = {}
  /\ IngressIdle
  /\ nameCall = NoNameCall
  /\ cleanupResult = NoCleanup
  /\ activations = {}
  /\ startedJobs = <<>>

\* POST up to the branch on the action: the action filter and the project lookup.
DirectPost ==
  \E p \in ProjectIds, n \in PrNumbers, a \in PrActions :
    /\ deliveries < MaxRequests
    /\ deliveries' = deliveries + 1
    /\ LET req == [NoRequest EXCEPT !.delivery = deliveries + 1, !.projectId = p,
                                    !.prNumber = n, !.action = a,
                                    !.head = HeadOf(deliveries + 1)]
       IN requests' =
            Append(requests,
                   IF a \notin SUPPORTED_PR_ACTIONS \/ ~projects[p].isActive
                   THEN Responded(req)
                   ELSE IF shouldTriggerDeployment(a)
                   THEN [req EXCEPT !.pc = "initial_comment", !.caller = "create"]
                   ELSE [req EXCEPT !.pc = "td_select", !.caller = "teardown"])
    /\ UNCHANGED <<projects, deployments, nextId, now, comments, toggles, queueVars, ingressVars, cleanupResult, nameCall,
                   flyApps, tempDirs, runVars>>

\* POST, create branch: the "Starting deployment" comment.
DirectInitialComment(r) ==
  /\ requests[r].pc = "initial_comment"
  /\ \E ok \in BOOLEAN :
       IF ok
       THEN /\ comments' = Append(comments, CommentOf(requests[r], "starting"))
            /\ requests' = [requests EXCEPT ![r].pc = "select_existing"]
       ELSE /\ requests' = [requests EXCEPT ![r].pc = "error_comment", ![r].error = "comment"]
            /\ UNCHANGED comments
  /\ UNCHANGED <<projects, deployments, nextId, now, deliveries, toggles, queueVars, ingressVars, cleanupResult, nameCall,
                 flyApps, tempDirs, runVars>>

\* POST, create branch: the select of an existing deployment (limit 1, no
\* order: any row of the pair) and the branch on its status.
DirectSelectExisting(r) ==
  /\ requests[r].pc = "select_existing"
  /\ LET rows == RowsOf(requests[r].projectId, requests[r].prNumber)
     IN \E existingDeployment \in IF rows = {} THEN {NoDeployment} ELSE rows :
          requests' =
            IF existingDeployment.status = "active"
            THEN [requests EXCEPT ![r].pc = "destroy_select",
                                  ![r].target = existingDeployment.id]
            ELSE [requests EXCEPT ![r].pc = "dp_insert"]
  /\ UNCHANGED <<projects, deployments, nextId, now, deliveries, comments, toggles,
                 queueVars, ingressVars, cleanupResult, nameCall, flyApps, tempDirs, runVars>>

\* Where a request goes when destroyDeployment throws: the catch of its branch.
AfterDestroyError(req) ==
  IF req.caller = "create"
  THEN [req EXCEPT !.pc = "error_comment", !.error = "destroy"]
  ELSE Responded(req)

\* DeploymentService.destroyDeployment: the select of the row.
DestroySelect(r) ==
  /\ requests[r].pc = "destroy_select"
  /\ requests' =
       [requests EXCEPT ![r] =
          IF \E d \in deployments : d.id = requests[r].target
          THEN [requests[r] EXCEPT !.pc = "destroy_delete"]
          ELSE AfterDestroyError(requests[r])]
  /\ UNCHANGED <<projects, deployments, nextId, now, deliveries, comments, toggles,
                 queueVars, ingressVars, cleanupResult, nameCall, flyApps, tempDirs, runVars>>

\* DeploymentService.destroyDeployment: flyClient.deleteApp, which throws when
\* the app does not exist and when the platform answers with an error.
DestroyDeleteApp(r) ==
  /\ requests[r].pc = "destroy_delete"
  /\ LET name == RowById(requests[r].target).flyAppName
     IN \E ok \in BOOLEAN :
          IF ok /\ name \in flyApps
          THEN /\ flyApps' = flyApps \ {name}
               /\ requests' = [requests EXCEPT ![r].pc = "destroy_update"]
          ELSE /\ requests' = [requests EXCEPT ![r] = AfterDestroyError(requests[r])]
               /\ UNCHANGED flyApps
  /\ UNCHANGED <<projects, deployments, nextId, now, deliveries, comments, toggles,
                 queueVars, ingressVars, cleanupResult, nameCall, tempDirs, runVars>>

\* DeploymentService.destroyDeployment: updateDeploymentStatus(id, 'destroyed').
DestroyUpdate(r) ==
  /\ requests[r].pc = "destroy_update"
  /\ deployments' = updateDeploymentStatus(requests[r].target, "destroyed")
  /\ requests' =
       [requests EXCEPT ![r].pc = IF requests[r].caller = "create"
                                  THEN "dp_insert" ELSE "td_comment"]
  /\ UNCHANGED <<projects, nextId, now, deliveries, comments, toggles, queueVars, ingressVars, cleanupResult, nameCall,
                 flyApps, tempDirs, runVars>>

\* DeploymentService.deployPullRequest: createDeploymentRecord.
DeployInsert(r) ==
  /\ requests[r].pc = "dp_insert"
  /\ deployments' =
       deployments \cup
         {createDeploymentRecord(
            nextId, requests[r],
            generateAppName(requests[r].projectId, requests[r].prNumber))}
  /\ nextId' = nextId + 1
  /\ requests' = [requests EXCEPT ![r].pc = "dp_building", ![r].deploymentId = nextId]
  /\ UNCHANGED <<projects, now, deliveries, comments, toggles, queueVars, ingressVars, cleanupResult, nameCall, flyApps,
                 tempDirs, runVars>>

\* DeploymentService.deployPullRequest: updateDeploymentStatus(id, 'building').
DeployBuilding(r) ==
  /\ requests[r].pc = "dp_building"
  /\ deployments' = updateDeploymentStatus(requests[r].deploymentId, "building")
  /\ requests' = [requests EXCEPT ![r].pc = "dp_clone"]
  /\ UNCHANGED <<projects, nextId, now, deliveries, comments, toggles, queueVars, ingressVars, cleanupResult, nameCall,
                 flyApps, tempDirs, runVars>>

\* DeploymentService.cloneRepository: the token request, mkdir, git clone and
\* checkout; a failure comes before or after the directory was made.
DeployClone(r) ==
  /\ requests[r].pc = "dp_clone"
  /\ \E outcome \in {"ok", "no_token", "clone_failed"} :
       /\ tempDirs' = IF outcome = "no_token" THEN tempDirs
                      ELSE tempDirs \cup {requests[r].deploymentId}
       /\ requests' =
            IF outcome = "ok"
            THEN [requests EXCEPT ![r].pc = "dp_build"]
            ELSE [requests EXCEPT ![r].pc = "dp_error", ![r].error = "clone"]
  /\ UNCHANGED <<projects, deployments, nextId, now, deliveries, comments, toggles,
                 queueVars, ingressVars, cleanupResult, nameCall, flyApps, runVars>>

\* DeploymentService.getProjectConfig and buildDockerImage.
DeployBuild(r) ==
  /\ requests[r].pc = "dp_build"
  /\ \E ok \in BOOLEAN :
       requests' =
         IF ok /\ requests[r].projectId \in DOMAIN projects
         THEN [requests EXCEPT ![r].pc = "dp_deploying"]
         ELSE [requests EXCEPT ![r].pc = "dp_error", ![r].error = "build"]
  /\ UNCHANGED <<projects, deployments, nextId, now, deliveries, comments, toggles,
                 queueVars, ingressVars, cleanupResult, nameCall, flyApps, tempDirs, runVars>>

\* DeploymentService.deployToFly: updateDeploymentStatus(id, 'deploying').
DeployDeploying(r) ==
  /\ requests[r].pc = "dp_deploying"
  /\ deployments' = updateDeploymentStatus(requests[r].deploymentId, "deploying")
  /\ requests' = [requests EXCEPT ![r].pc = "dp_fly"]
  /\ UNCHANGED <<projects, nextId, now, deliveries, comments, toggles, queueVars, ingressVars, cleanupResult, nameCall,
                 flyApps, tempDirs, runVars>>

\* DeploymentService.deployToFly: getApp, createApp when absent, fly deploy; a
\* failure comes before or after the app was created.
DeployFly(r) ==
  /\ requests[r].pc = "dp_fly"
  /\ LET name == RowById(requests[r].deploymentId).flyAppName
     IN \E outcome \in {"ok", "api_failed", "deploy_failed"} :
          /\ flyApps' = IF outcome = "api_failed" THEN flyApps ELSE flyApps \cup {name}
          /\ requests' =
               IF outcome = "ok"
               THEN [requests EXCEPT ![r].pc = "dp_complete"]
               ELSE [requests EXCEPT ![r].pc = "dp_error", ![r].error = "fly"]
  /\ UNCHANGED <<projects, deployments, nextId, now, deliveries, comments, toggles,
                 queueVars, ingressVars, cleanupResult, nameCall, tempDirs, runVars>>

\* DeploymentService.deployPullRequest: updateDeploymentComplete.
DeployComplete(r) ==
  /\ requests[r].pc = "dp_complete"
  /\ deployments' = updateDeploymentComplete(requests[r].deploymentId)
  /\ requests' = [requests EXCEPT ![r].pc = "dp_rm"]
  /\ UNCHANGED <<projects, nextId, now, deliveries, comments, toggles, queueVars, ingressVars, cleanupResult, nameCall,
                 flyApps, tempDirs, runVars>>

\* DeploymentService.deployPullRequest: fs.rm of the clone directory, return.
\* The call is inside the try block: when it throws, the catch runs.
DeployRemoveTemp(r) ==
  /\ requests[r].pc = "dp_rm"
  /\ \E ok \in BOOLEAN :
       IF ok
       THEN /\ tempDirs' = tempDirs \ {requests[r].deploymentId}
            /\ requests' = [requests EXCEPT ![r].pc = "success_comment"]
       ELSE /\ requests' = [requests EXCEPT ![r].pc = "dp_error", ![r].error = "rm"]
            /\ UNCHANGED tempDirs
  /\ UNCHANGED <<projects, deployments, nextId, now, deliveries, comments, toggles,
                 queueVars, ingressVars, cleanupResult, nameCall, flyApps, runVars>>

\* DeploymentService.deployPullRequest, its catch: handleDeploymentError, rethrow.
DeployError(r) ==
  /\ requests[r].pc = "dp_error"
  /\ deployments' = handleDeploymentError(requests[r].deploymentId, requests[r].error)
  /\ requests' = [requests EXCEPT ![r].pc = "error_comment"]
  /\ UNCHANGED <<projects, nextId, now, deliveries, comments, toggles, queueVars, ingressVars, cleanupResult, nameCall,
                 flyApps, tempDirs, runVars>>

\* POST, create branch: the select of the new row and the "Ready" comment.
DirectSuccessComment(r) ==
  /\ requests[r].pc = "success_comment"
  /\ IF RowById(requests[r].deploymentId).previewUrl = NoName
     THEN /\ requests' = [requests EXCEPT ![r] = Responded(requests[r])]
          /\ UNCHANGED comments
     ELSE \E ok \in BOOLEAN :
            IF ok
            THEN /\ comments' = Append(comments, CommentOf(requests[r], "ready"))
                 /\ requests' = [requests EXCEPT ![r] = Responded(requests[r])]
            ELSE /\ requests' = [requests EXCEPT ![r].pc = "error_comment",
                                                 ![r].error = "comment"]
                 /\ UNCHANGED comments
  /\ UNCHANGED <<projects, deployments, nextId, now, deliveries, toggles, queueVars, ingressVars, cleanupResult, nameCall,
                 flyApps, tempDirs, runVars>>

\* POST, create branch, its catch: the "Deployment Failed" comment.
DirectErrorComment(r) ==
  /\ requests[r].pc = "error_comment"
  /\ \E ok \in BOOLEAN :
       comments' = IF ok THEN Append(comments, CommentOf(requests[r], "failed"))
                   ELSE comments
  /\ requests' = [requests EXCEPT ![r] = Responded(requests[r])]
  /\ UNCHANGED <<projects, deployments, nextId, now, deliveries, toggles, queueVars, ingressVars, cleanupResult, nameCall,
                 flyApps, tempDirs, runVars>>

\* POST, cleanup branch: the select of an 'active' row of the pair (limit 1).
TeardownSelect(r) ==
  /\ requests[r].pc = "td_select"
  /\ LET rows == {d \in RowsOf(requests[r].projectId, requests[r].prNumber) :
                    d.status = "active"}
     IN IF rows = {}
        THEN requests' = [requests EXCEPT ![r] = Responded(requests[r])]
        ELSE \E activeDeployment \in rows :
               requests' = [requests EXCEPT ![r].pc = "destroy_select",
                                            ![r].target = activeDeployment.id]
  /\ UNCHANGED <<projects, deployments, nextId, now, deliveries, comments, toggles,
                 queueVars, ingressVars, cleanupResult, nameCall, flyApps, tempDirs, runVars>>

\* POST, cleanup branch: the "Deployment Preview Removed" comment.
TeardownComment(r) ==
  /\ requests[r].pc = "td_comment"
  /\ \E ok \in BOOLEAN :
       comments' = IF ok THEN Append(comments, CommentOf(requests[r], "removed"))
                   ELSE comments
  /\ requests' = [requests EXCEPT ![r] = Responded(requests[r])]
  /\ UNCHANGED <<projects, deployments, nextId, now, deliveries, toggles, queueVars, ingressVars, cleanupResult, nameCall,
                 flyApps, tempDirs, runVars>>

NextDirect ==
  \/ SetProjectActive
  \/ DirectPost
  \/ \E r \in DOMAIN requests : DirectInitialComment(r)
  \/ \E r \in DOMAIN requests : DirectSelectExisting(r)
  \/ \E r \in DOMAIN requests : DestroySelect(r)
  \/ \E r \in DOMAIN requests : DestroyDeleteApp(r)
  \/ \E r \in DOMAIN requests : DestroyUpdate(r)
  \/ \E r \in DOMAIN requests : DeployInsert(r)
  \/ \E r \in DOMAIN requests : DeployBuilding(r)
  \/ \E r \in DOMAIN requests : DeployClone(r)
  \/ \E r \in DOMAIN requests : DeployBuild(r)
  \/ \E r \in DOMAIN requests : DeployDeploying(r)
  \/ \E r \in DOMAIN requests : DeployFly(r)
  \/ \E r \in DOMAIN requests : DeployComplete(r)
  \/ \E r \in DOMAIN requests : DeployRemoveTemp(r)
  \/ \E r \in DOMAIN requests : DeployError(r)
  \/ \E r \in DOMAIN requests : DirectSuccessComment(r)
  \/ \E r \in DOMAIN requests : DirectErrorComment(r)
  \/ \E r \in DOMAIN requests : TeardownSelect(r)
  \/ \E r \in DOMAIN requests : TeardownComment(r)

SpecDirect == InitDirect /\ [][NextDirect]_vars

\* ------------------------------------------------- properties, queued route

LiveStatuses == {"pending", "building", "deploying", "ready"}
InFlightStatuses == {"pending", "building", "deploying"}

LiveRowsOf(projectId, prNumber) ==
  {d \in RowsOf(projectId, prNumber) : d.status \in LiveStatuses}

\* The step of the worker that takes the decision of a create / of a cleanup job.
CreateDecideStep == worker.pc = "create_decide" /\ worker' # worker
CleanupDecideStep == worker.pc = "cleanup_decide" /\ worker' # worker

\* The step that ends the job the worker is running (return or throw).
JobEndStep == worker.pc \notin {"idle", "loop"} /\ worker'.pc = "loop"

JobLatest == LatestDeployment(worker.job.projectId, worker.job.prNumber)

\* C1: for every (project, PR number) and every order of create events, at most
\* one deployment row of the pair is in a live status (pending, building,
\* deploying, ready) at the same time.
C1_AtMostOneLiveRowPerPR ==
  \A p \in ProjectIds, n \in PrNumbers : Cardinality(LiveRowsOf(p, n)) <= 1

\* C1, its case: a pair whose first create event inserted a row and whose later
\* create event found that row in flight holds exactly one live row.
C1_Witness ==
  \E p \in ProjectIds, n \in PrNumbers :
    /\ Cardinality(LiveRowsOf(p, n)) = 1
    /\ \E i, j \in DOMAIN decisions :
         /\ i < j
         /\ decisions[i].projectId = p /\ decisions[i].prNumber = n
         /\ decisions[j].projectId = p /\ decisions[j].prNumber = n
         /\ decisions[i].transition = "CreateNew"
         /\ decisions[j].transition = "SkipInFlight"
         /\ decisions[j].latestId \in {d.id : d \in LiveRowsOf(p, n)}

\* C3: a create event processed while the latest row of its pair is pending,
\* building or deploying is skipped: the job returns, no row is inserted, no
\* field of any row changes and no comment is posted.
C3_SkipInFlight ==
  [][(CreateDecideStep /\ JobLatest.status \in InFlightStatuses)
       => /\ worker' = JobReturned
          /\ deployments' = deployments
          /\ nextId' = nextId
          /\ comments' = comments]_vars

\* C3, its case: a create job decided SkipInFlight and has returned.
C3_Witness ==
  /\ worker.pc = "loop"
  /\ decisions # <<>>
  /\ LET last == decisions[Len(decisions)]
     IN /\ last.transition = "SkipInFlight"
        /\ last.latestStatus \in InFlightStatuses
        /\ last.delivery = deliveries

\* C4: with a ready row created at T, a create event processed at T + 1 min is
\* skipped (no new row, no status change) and one processed at T + 6 min resets
\* that very row to pending with the event's commit, inserting nothing.
C4_Cooldown ==
  [][/\ (CreateDecideStep /\ JobLatest.status = "ready" /\ now - JobLatest.createdAt = 1)
          => /\ worker' = JobReturned
             /\ deployments' = deployments
             /\ nextId' = nextId
     /\ (CreateDecideStep /\ JobLatest.status = "ready" /\ now - JobLatest.createdAt = 6)
          => /\ worker'.pc = "create_reset"
             /\ worker'.existingDeployment = JobLatest
             /\ deployments' = deployments
     /\ (worker.pc = "create_reset" /\ worker' # worker)
          => /\ nextId' = nextId
             /\ \E d \in deployments :
                  /\ d.id = worker.existingDeployment.id
                  /\ deployments' =
                       (deployments \ {d}) \cup
                         {[d EXCEPT !.status = "pending",
                                    !.commitSha = worker.job.head.sha,
                                    !.branch = worker.job.head.ref,
                                    !.updatedAt = now, !.startedAt = now,
                                    !.completedAt = NoTime, !.errorMessage = ""]}]_vars

\* C4, its case: the same ready row absorbed an event at T + 1 and was reset by
\* an event at T + 6.
C4_Witness ==
  \E i, j \in DOMAIN decisions :
    /\ decisions[i].transition = "SkipCooldown" /\ decisions[i].age = 1
    /\ decisions[j].transition = "ResetAndRedeploy" /\ decisions[j].age = 6
    /\ decisions[i].latestId = decisions[j].latestId
    /\ \E d \in deployments :
         /\ d.id = decisions[j].latestId
         /\ d.status = "pending"
         /\ d.commitSha = decisions[j].delivery

\* C5: a create job that found the latest row of its pair failed ends with that
\* same row (same id, same app name) pending with the event's commit, and with
\* no newer row of the pair.
C5_FailedIsReset ==
  [][(JobEndStep /\ shouldTriggerDeployment(worker.job.action)
        /\ worker.existingDeployment.status = "failed")
       => /\ \E d \in deployments' :
               /\ d.id = worker.existingDeployment.id
               /\ d.flyAppName = worker.existingDeployment.flyAppName
               /\ d.status = "pending"
               /\ d.commitSha = worker.job.head.sha
          /\ ~ \E d \in deployments' :
                 /\ d.projectId = worker.job.projectId
                 /\ d.prNumber = worker.job.prNumber
                 /\ d.id > worker.existingDeployment.id]_vars

\* C6: a create job that found the latest row of its pair destroying or
\* destroyed ends with a new pending row of the pair and the old row untouched.
C6_ReopenCreatesNew ==
  [][(JobEndStep /\ shouldTriggerDeployment(worker.job.action)
        /\ worker.existingDeployment.status \in {"destroying", "destroyed"})
       => /\ worker.existingDeployment \in deployments'
          /\ \E d \in deployments' :
               /\ d.projectId = worker.job.projectId
               /\ d.prNumber = worker.job.prNumber
               /\ d.id # worker.existingDeployment.id
               /\ d.status = "pending"]_vars

\* C7: a close event processed when the pair has no row, or when its latest row
\* is destroying or destroyed, returns at once: no row changes and no comment is
\* posted, however often it is repeated.
C7_IdempotentClose ==
  [][(CleanupDecideStep /\ JobLatest.status \in {"none", "destroying", "destroyed"})
       => /\ worker' = JobReturned
          /\ deployments' = deployments
          /\ nextId' = nextId
          /\ comments' = comments]_vars

\* C7, its case: a close was repeated on a destroyed deployment, and a close
\* arrived for a pull request without any row.
C7_Witness ==
  /\ worker.pc = "idle"
  /\ \E i, j, k \in DOMAIN decisions :
       /\ i < j
       /\ decisions[i].transition = "SkipNoop" /\ decisions[j].transition = "SkipNoop"
       /\ decisions[i].latestStatus = "destroyed" /\ decisions[j].latestStatus = "destroyed"
       /\ decisions[i].latestId = decisions[j].latestId
       /\ decisions[k].transition = "SkipNoop" /\ decisions[k].latestStatus = "none"

\* C9: a row that is building or deploying is not taken to destroying or
\* destroyed by any step.
C9_NoDestroyMidFlight ==
  [][\A d \in deployments : \A e \in deployments' :
       (d.id = e.id /\ d.status \in {"building", "deploying"})
         => e.status \notin {"destroying", "destroyed"}]_vars

\* The edges of the status state machine.
StatusEdges ==
  {<<"pending", "building">>, <<"building", "deploying">>, <<"deploying", "ready">>,
   <<"pending", "failed">>, <<"building", "failed">>, <<"deploying", "failed">>,
   <<"ready", "destroying">>, <<"failed", "destroying">>, <<"destroying", "destroyed">>,
   <<"ready", "pending">>, <<"failed", "pending">>}

\* C10: every change of the status of a row follows an edge of the state machine.
C10_OnlyStateMachineEdges ==
  [][\A d \in deployments : \A e \in deployments' :
       (d.id = e.id /\ d.status # e.status) => <<d.status, e.status>> \in StatusEdges]_vars

\* ------------------------------------------------- properties, direct route

\* The positions of a request inside deployPullRequest after its row was inserted
\* and before it was completed or failed: a build-and-deploy in progress.
ExecutorPositions ==
  {"dp_building", "dp_clone", "dp_build", "dp_deploying", "dp_fly", "dp_complete"}

Executing(projectId, prNumber) ==
  {r \in DOMAIN requests :
     /\ requests[r].projectId = projectId
     /\ requests[r].prNumber = prNumber
     /\ requests[r].pc \in ExecutorPositions}

\* C2: for the same (project, PR number) no two build-and-deploy executions
\* are in progress at the same time.
C2_NoConcurrentExecutors ==
  \A p \in ProjectIds, n \in PrNumbers : Cardinality(Executing(p, n)) <= 1

\* C8: a row becomes destroyed only from destroying, and with destroyedAt set.
C8_DestroyedViaDestroying ==
  [][\A d \in deployments : \A e \in deployments' :
       (d.id = e.id /\ d.status # "destroyed" /\ e.status = "destroyed")
         => (d.status = "destroying" /\ e.destroyedAt # NoTime)]_vars

\* C11: once the status of a row is destroyed, no step changes it again.
C11_DestroyedIsTerminal ==
  [][\A d \in deployments : \A e \in deployments' :
       (d.id = e.id /\ d.status = "destroyed") => e.status = "destroyed"]_vars

\* ------------------------------------------------- progress, queued route

\* The steps of processQueue and of the job it runs: the event loop runs a
\* scheduled callback and resumes a job whose await has settled.
WorkerStep ==
  \/ ProcessQueueCall
  \/ ProcessQueueLoop
  \/ VerifyProject
  \/ CreateDecide
  \/ CreateReset
  \/ CreateName
  \/ CreateInsert
  \/ PostComment
  \/ CleanupDecide
  \/ CleanupSelect
  \/ CleanupMark
  \/ CleanupDestroy

\* The queued route on an empty table or on one ready deployment, its worker
\* never starved.
InitLive == Init /\ deployments \in {{}, {StoredRow("p1", 1, "ready")}}

SpecLive == InitLive /\ [][Next]_vars /\ WF_vars(WorkerStep)

\* The row with this id is pending with the commit of an event.
PendingByEvent(id) ==
  \E d \in deployments : d.id = id /\ d.status = "pending" /\ d.commitSha > 0

\* The row with this id was built (ready or failed) or torn down by a close.
MovedOn(id) ==
  \E d \in deployments :
    d.id = id /\ d.status \in {"ready", "failed", "destroying", "destroyed"}

\* C12: every row that an event created in, or reset to, pending eventually
\* reaches ready or failed (or is torn down by a close): no row stays pending
\* forever.
C12_PendingMovesOn ==
  \A id \in 1..(MaxDeliveries + 1) : PendingByEvent(id) ~> MovedOn(id)

\* A job that had written a deployment row ends with an exception: withRetry threw
\* in the comment step, the catch block logged and threw again (processQueue logs it).
JobThrewAfterWrite ==
  /\ JobEndStep
  /\ worker.pc \in {"create_comment", "cleanup_comment"}
  /\ failedJobs' # failedJobs

\* C13: when a job ends with an exception after it wrote a deployment row, the row it
\* wrote (the latest of its pull request) is not left pending, building, deploying or
\* destroying: a terminal / safe status was written first.
C13_FailingJobLeavesSafeStatus ==
  [][JobThrewAfterWrite =>
       \A d \in deployments' :
         d.id = JobLatest.id =>
           d.status \notin {"pending", "building", "deploying", "destroying"}]_vars

\* ====================================================== ingress of the queued route
\* POST of part_017 from the security validation to the enqueueing of the job.

\* The body GitHub sends under a delivery id: a redelivery carries the same body.
BodyOf(deliveryId) ==
  [delivery |-> deliveryId, projectId |-> "p1", prNumber |-> 1,
   head |-> HeadOf(deliveryId),
   action |-> IF deliveryId % 2 = 1 THEN "opened" ELSE "closed"]

\* The HTTP status POST answers with.
StatusOf(code, signed) ==
  IF code = "RATE_LIMIT" THEN 429
  ELSE IF code # "ok" THEN 400
  ELSE IF ~signed THEN 401
  ELSE 200

\* The ingress with the rate-limit counter as earlier requests of one address
\* (deliveries with other ids) left it: none, or 29 requests, all of them in the running
\* minute or one of them every minute.
InitIngress ==
  /\ projects = [p \in ProjectIds |-> [isActive |-> TRUE]]
  /\ deployments = {}
  /\ nextId = 1
  /\ now = 0
  /\ deliveries = 0
  /\ deploymentQueue = <<>>
  /\ isProcessingQueue = FALSE
  /\ immediates = 0
  /\ worker = IdleWorker
  /\ comments = <<>>
  /\ failedJobs = {}
  /\ toggles = 0
  /\ decisions = <<>>
  /\ requests = <<>>
  /\ flyApps = {}
  /\ tempDirs = {}
  /\ deliveryCache = [i \in DeliveryIds |-> NoDelivery]
  /\ \E count \in {0, maxRequestsPerMinute - 1}, spread \in BOOLEAN :
       /\ count = 0 => ~spread
       /\ rateLimitCache =
            [a \in SourceIps |->
               IF count = 0 \/ a # "ip1" THEN NoEntry ELSE [value |-> count, at |-> 0]]
       /\ accepted =
            [a \in SourceIps |->
               IF a # "ip1" THEN <<>>
               ELSE [i \in 1..count |-> IF spread THEN i - count ELSE 0]]
  /\ ingress = [i \in DeliveryIds |-> NoArrivals]
  /\ response = NoResponse
  /\ nameCall = NoNameCall
  /\ cleanupResult = NoCleanup
  /\ activations = {}
  /\ startedJobs = <<>>

IngressTick ==
  /\ \E k \in 1..(Len(IngressTimes) - 1) :
       now = IngressTimes[k] /\ now' = IngressTimes[k + 1]
  /\ UNCHANGED <<projects, deployments, nextId, deliveries, comments, toggles,
                 queueVars, directVars, ingressVars, cleanupResult, nameCall, runVars>>

\* POST: validateWebhookSecurity, verifyWebhookSignature, the ping / event filter and,
\* for a pull_request delivery of an active project, the enqueueing of its job.
IngressPost ==
  \E deliveryId \in DeliveryIds, event \in WebhookEvents, sourceIp \in SourceIps,
     oversized \in BOOLEAN, signed \in BOOLEAN :
    /\ deliveries < MaxPosts
    /\ deliveries' = deliveries + 1
    /\ LET v == validateWebhookSecurity(deliveryId, event, sourceIp, oversized)
           status == StatusOf(v.code, signed)
           body == BodyOf(deliveryId)
           processed == status = 200 /\ event = "pull_request"
           intact == signed /\ event = "pull_request" /\ ~oversized
           h == ingress[deliveryId]
       IN /\ deliveryCache' = v.deliveryCache
          /\ rateLimitCache' = v.rateLimitCache
          /\ response' = [deliveryId |-> deliveryId, event |-> event,
                          sourceIp |-> sourceIp, signed |-> signed,
                          oversized |-> oversized, status |-> status]
          /\ accepted' = IF v.code = "ok"
                         THEN [accepted EXCEPT ![sourceIp] = Append(@, now)]
                         ELSE accepted
          /\ ingress' =
               [ingress EXCEPT ![deliveryId] =
                  [intact |-> h.intact + (IF intact THEN 1 ELSE 0),
                   other |-> h.other + (IF intact THEN 0 ELSE 1),
                   processed |-> h.processed + (IF processed THEN 1 ELSE 0),
                   firstAt |-> IF h.firstAt = NoTime THEN now ELSE h.firstAt,
                   lastAt |-> now,
                   cachedAt |-> IF v.code \in {"ok", "RATE_LIMIT"} THEN now ELSE h.cachedAt]]
          /\ IF processed /\ body.action \in SUPPORTED_PR_ACTIONS
                /\ projects[body.projectId].isActive
             THEN /\ deploymentQueue' = Append(deploymentQueue, body)
                  /\ immediates' = immediates + 1
             ELSE UNCHANGED <<deploymentQueue, immediates>>
    /\ UNCHANGED <<projects, deployments, nextId, now, isProcessingQueue, worker,
                   comments, failedJobs, toggles, decisions, directVars, nameCall,
                   cleanupResult, runVars>>

NextIngress == IngressTick \/ IngressPost

SpecIngress == InitIngress /\ [][NextIngress]_vars

\* C14: of the deliveries that carry the same id and the same intact body and arrive
\* within the ttl of the replay cache, exactly one is processed (its job is enqueued).
C14_ExactlyOneProcessed ==
  \A i \in DeliveryIds :
    (/\ ingress[i].intact >= 2
     /\ ingress[i].other = 0
     /\ ingress[i].lastAt - ingress[i].firstAt <= ReplayTtlMinutes)
      => ingress[i].processed = 1

\* A request has just been answered and its signature did not verify.
UnsignedPost == deliveries' = deliveries + 1 /\ ~response'.signed

\* C15: a request whose signature does not verify is answered 401 and changes neither
\* the deployment table, nor the job queue, nor the replay cache, nor the rate-limit
\* counters.
C15_BadSignatureNoMutation ==
  [][UnsignedPost =>
       /\ response'.status = 401
       /\ UNCHANGED <<deployments, deploymentQueue, deliveryCache, rateLimitCache>>]_vars

\* C16: no two deployment rows whose status is not destroyed hold the same Fly app
\* name, whatever their projects and pull requests.
C16_AppNameUniqueAmongLive ==
  \A d, e \in deployments :
    (d.id # e.id /\ d.status # "destroyed" /\ e.status # "destroyed")
      => d.flyAppName # e.flyAppName

\* ================================================== generateUniqueFlyAppName, as text
\* Names as sequences of characters, to follow what the function does to its input.

BaseNameLength == 25
MaxNameLength == 30
SuffixStart == 2
SuffixEnd == 6

MaxNameCalls == 1

LowerCase == <<"a", "b", "c", "d", "e", "f", "g", "h", "i", "j", "k", "l", "m",
               "n", "o", "p", "q", "r", "s", "t", "u", "v", "w", "x", "y", "z">>
UpperCase == <<"A", "B", "C", "D", "E", "F", "G", "H", "I", "J", "K", "L", "M",
               "N", "O", "P", "Q", "R", "S", "T", "U", "V", "W", "X", "Y", "Z">>
DigitChars == <<"0", "1", "2", "3", "4", "5", "6", "7", "8", "9">>

Range(f) == {f[i] : i \in DOMAIN f}

\* String.prototype.toLowerCase, one character.
toLowerCase(c) ==
  IF c \in Range(UpperCase)
  THEN LowerCase[CHOOSE i \in DOMAIN UpperCase : UpperCase[i] = c]
  ELSE c

\* The class [a-z0-9-] of the first replace.
NameChars == Range(LowerCase) \cup Range(DigitChars) \cup {"-"}

\* `${prNumber}`: the decimal digits of the number.
RECURSIVE DigitsOf(_)
DigitsOf(n) ==
  IF n < 10 THEN <<DigitChars[n + 1]>>
  ELSE DigitsOf(n \div 10) \o <<DigitChars[(n % 10) + 1]>>

\* .replace(/--+/g, '-')
RECURSIVE CollapseHyphens(_)
CollapseHyphens(str) ==
  IF Len(str) < 2 THEN str
  ELSE IF str[1] = "-" /\ str[2] = "-" THEN CollapseHyphens(Tail(str))
  ELSE <<str[1]>> \o CollapseHyphens(Tail(str))

\* .replace(/^-|-$/g, '')
StripHyphenEnds(str) ==
  LET t == IF str # <<>> /\ str[1] = "-" THEN Tail(str) ELSE str
  IN IF t # <<>> /\ t[Len(t)] = "-" THEN SubSeq(t, 1, Len(t) - 1) ELSE t

\* .substring(0, end)
substring(str, end) == SubSeq(str, 1, IF Len(str) < end THEN Len(str) ELSE end)

\* The base name: the template, lower-cased, cleaned and cut to 25 characters.
BaseName(basePrefix, prNumber) ==
  LET template == basePrefix \o <<"-", "p", "r", "-">> \o DigitsOf(prNumber)
      lower == [i \in 1..Len(template) |-> toLowerCase(template[i])]
      clean == [i \in 1..Len(lower) |->
                  IF lower[i] \in NameChars THEN lower[i] ELSE "-"]
  IN substring(StripHyphenEnds(CollapseHyphens(clean)), BaseNameLength)

\* Math.random().toString(36).substring(2, 6): up to four digits of base 36 (none
\* when the random number is 0, fewer than four when its expansion is short).
Suffixes == {[i \in 1..n |-> c] : n \in 0..(SuffixEnd - SuffixStart), c \in {"0", "z"}}

\* A variant of generateUniqueFlyAppNameText whose query has no status filter.
generateUniqueFlyAppNameText_AnyStatus(basePrefix, prNumber, projectId) ==
  LET baseName == BaseName(basePrefix, prNumber)
      existing == {d \in deployments :
                     /\ d.flyAppName = baseName
                     /\ d.projectId # projectId}
  IN IF existing = {} THEN {baseName}
     ELSE {substring(baseName \o <<"-">> \o suffix, MaxNameLength) : suffix \in Suffixes}

\* generateUniqueFlyAppName on text: the names it may return.
generateUniqueFlyAppNameText(basePrefix, prNumber, projectId) ==
  LET baseName == BaseName(basePrefix, prNumber)
      existing == {d \in deployments :
                     /\ d.flyAppName = baseName
                     /\ d.projectId # projectId
                     /\ d.status \in {"ready", "pending", "building", "deploying"}}
  IN IF existing = {} THEN {baseName}
     ELSE {substring(baseName \o <<"-">> \o suffix, MaxNameLength) : suffix \in Suffixes}

\* projectConfig.flyAppNamePrefix || projectConfig.repoName: plain, with upper case
\* and other characters, with hyphens at the ends, and long ones.
Prefixes ==
  {<<"w", "e", "b">>,
   <<"M", "y", "_", "A", "p", "p">>,
   <<"-", ".", "a", ".", ".", "b", "-">>,
   [i \in 1..24 |-> "a"],
   [i \in 1..26 |-> "x"]}

NamePrNumbers == {7, 42}

\* A stored row whose app name is text.
TextRow(id, projectId, prNumber, status, name) ==
  [StoredRow(projectId, prNumber, status) EXCEPT !.id = id, !.flyAppName = name]

NameCallIdle == [pc |-> "idle", calls |-> 0, basePrefix |-> <<>>, prNumber |-> 0,
                 projectId |-> "", result |-> <<>>]

\* The table is empty or holds one row, of any status, under one of the base names.
InitNames ==
  /\ projects = [p \in ProjectIds |-> [isActive |-> TRUE]]
  /\ \E rows \in {{}} \cup
         {{TextRow(1, p, n, st, BaseName(b, n))} :
            p \in ProjectIds, n \in NamePrNumbers, st \in DeploymentStatuses,
            b \in Prefixes} :
       /\ deployments = rows
       /\ nextId = Cardinality(rows) + 1
  /\ now = 0
  /\ deliveries = 0
  /\ deploymentQueue = <<>>
  /\ isProcessingQueue = FALSE
  /\ immediates = 0
  /\ worker = IdleWorker
  /\ comments = <<>>
  /\ failedJobs = {}
  /\ toggles = 0
  /\ decisions = <<>>
  /\ requests = <<>>
  /\ flyApps = {}
  /\ tempDirs = {}
  /\ IngressIdle
  /\ nameCall = NameCallIdle
  /\ cleanupResult = NoCleanup
  /\ activations = {}
  /\ startedJobs = <<>>

\* handleDeploymentCreation calls generateUniqueFlyAppName.
GenerateName ==
  \E basePrefix \in Prefixes, prNumber \in NamePrNumbers, projectId \in ProjectIds :
    /\ nameCall.pc = "idle"
    /\ nameCall.calls < MaxNameCalls
    /\ \E name \in generateUniqueFlyAppNameText(basePrefix, prNumber, projectId) :
         nameCall' = [pc |-> "returned", calls |-> nameCall.calls + 1,
                      basePrefix |-> basePrefix, prNumber |-> prNumber,
                      projectId |-> projectId, result |-> name]
    /\ UNCHANGED <<projects, deployments, nextId, now, deliveries, comments, toggles,
                   queueVars, directVars, ingressVars, cleanupResult, runVars>>

\* handleDeploymentCreation inserts the pending row under the name it was given; the
\* unique constraint on fly_app_name rejects a name that a row already holds.
StoreName ==
  /\ nameCall.pc = "returned"
  /\ IF UniqueViolation(nameCall.result)
     THEN UNCHANGED <<deployments, nextId>>
     ELSE /\ deployments' =
               deployments \cup
                 {TextRow(nextId, nameCall.projectId, nameCall.prNumber, "pending",
                          nameCall.result)}
          /\ nextId' = nextId + 1
  /\ nameCall' = [nameCall EXCEPT !.pc = "idle"]
  /\ UNCHANGED <<projects, now, deliveries, comments, toggles,
                 queueVars, directVars, ingressVars, cleanupResult, runVars>>

NextNames == GenerateName \/ StoreName

SpecNames == InitNames /\ [][NextNames]_vars

\* The base name of the call belongs to a live deployment of another project.
NameCollision ==
  \E d \in deployments :
    /\ d.flyAppName = BaseName(nameCall.basePrefix, nameCall.prNumber)
    /\ d.projectId # nameCall.projectId
    /\ d.status \in LiveStatuses

\* C17: when the base name belongs to a live deployment of another project the call
\* returns the base name followed by a hyphen and a suffix: a name other than the base
\* name, of at most 30 characters, all of them lower-case letters, digits or hyphens;
\* in every other case it returns the base name.
C17_RegeneratedName ==
  nameCall.pc = "returned" =>
    LET baseName == BaseName(nameCall.basePrefix, nameCall.prNumber)
        result == nameCall.result
    IN IF NameCollision
       THEN /\ result # baseName
            /\ Len(result) > Len(baseName)
            /\ SubSeq(result, 1, Len(baseName) + 1) = baseName \o <<"-">>
            /\ Len(result) <= MaxNameLength
            /\ \A i \in 1..Len(result) : result[i] \in NameChars
       ELSE result = baseName

\* A call met a collision on a base name cut to 25 characters and returned a name of
\* 30 characters with a full suffix.
C17_Witness ==
  /\ nameCall.pc = "returned"
  /\ NameCollision
  /\ Len(BaseName(nameCall.basePrefix, nameCall.prNumber)) = BaseNameLength
  /\ Len(nameCall.result) = MaxNameLength

\* handleDeploymentCreation has just run the update of its ResetAndRedeploy branch.
ResetStep == worker.pc = "create_reset" /\ worker'.pc = "create_comment"

\* C18: the reset keeps the row: its status becomes pending, its commit and branch
\* those of the event, completedAt and the error message are cleared, and its id,
\* project, PR number, app name and createdAt stay; no other row is inserted, changed
\* or deleted.
C18_ResetReusesRow ==
  [][ResetStep =>
       /\ Cardinality(deployments') = Cardinality(deployments)
       /\ \A d \in deployments :
            \E e \in deployments' :
              /\ e.id = d.id
              /\ IF d.id = worker.existingDeployment.id
                 THEN /\ e.status = "pending"
                      /\ e.commitSha = worker.job.head.sha
                      /\ e.branch = worker.job.head.ref
                      /\ e.completedAt = NoTime
                      /\ e.errorMessage = ""
                      /\ e.projectId = d.projectId
                      /\ e.prNumber = d.prNumber
                      /\ e.flyAppName = d.flyAppName
                      /\ e.createdAt = d.createdAt
                 ELSE e = d]_vars

\* A ready row was reset to the commit of a later event while the table held a row of
\* another pull request as well.
C18_Witness ==
  /\ worker.pc = "create_comment"
  /\ worker.existingDeployment.status = "ready"
  /\ Cardinality(deployments) >= 2
  /\ \E d \in deployments :
       /\ d.id = worker.existingDeployment.id
       /\ d.status = "pending"
       /\ d.commitSha = worker.job.head.sha
       /\ d.createdAt < now

\* C19: whatever becomes of the "Starting deployment" comment, the create branch goes
\* on to its next step (the select of the existing deployment, then the deployment):
\* a failed comment does not abort the flow.
C19_CommentFailureDoesNotAbort ==
  [][\A r \in DOMAIN requests :
       (requests[r].pc = "initial_comment" /\ requests'[r].pc # "initial_comment")
         => requests'[r].pc = "select_existing"]_vars

\* C20: destroyDeployment on a deployment whose app is absent from the platform goes on
\* to mark the row destroyed: "not found" counts as a successful delete.
C20_DestroyAbsentAppSucceeds ==
  [][\A r \in DOMAIN requests :
       (/\ requests[r].pc = "destroy_delete"
        /\ requests'[r].pc # "destroy_delete"
        /\ RowById(requests[r].target).flyAppName \notin flyApps)
         => requests'[r].pc = "destroy_update"]_vars

\* C21: once deployPullRequest has returned or thrown, the directory cloneRepository
\* made for its deployment is gone.
C21_TempDirRemovedOnExit ==
  \A r \in DOMAIN requests :
    (/\ requests[r].pc \in {"success_comment", "error_comment"}
     /\ requests[r].deploymentId # NoRequest.deploymentId)
      => requests[r].deploymentId \notin tempDirs

\* POST has just answered a delivery.
PostStep == deliveries' = deliveries + 1

\* A job has just run its verifyProjectActive and its project is not active.
VerifyInactiveStep ==
  /\ worker.pc \in {"create_verify", "cleanup_verify"}
  /\ worker' # worker
  /\ ~projects[worker.job.projectId].isActive

\* C22: an event of an inactive project is a no-op.  POST enqueues a job only for an
\* active project and itself touches neither rows nor comments; a job that finds its
\* project inactive when it starts returns at once; and rows and comments change only
\* inside a job that got past that check.
C22_InactiveProjectNoOp ==
  [][/\ PostStep =>
          /\ UNCHANGED <<deployments, comments>>
          /\ deploymentQueue' # deploymentQueue =>
               projects[deploymentQueue'[Len(deploymentQueue')].projectId].isActive
     /\ VerifyInactiveStep =>
          /\ worker' = JobReturned
          /\ UNCHANGED <<deployments, comments, failedJobs>>
     /\ (deployments' # deployments \/ comments' # comments) =>
          worker.pc \notin {"idle", "loop", "create_verify", "cleanup_verify"}]_vars

\* The only delivery so far was accepted, its project was deactivated before its job
\* started, and the job has returned without a decision, a row or a comment.
C22_Witness ==
  /\ deliveries = 1
  /\ toggles = 1
  /\ worker.pc = "loop"
  /\ deploymentQueue = <<>>
  /\ decisions = <<>>
  /\ comments = <<>>
  /\ \E p \in ProjectIds : ~projects[p].isActive

\* POST has just answered a correctly signed request within the size limit, the first
\* one under its delivery id, and did not reject it for rate.
CleanPost ==
  /\ PostStep
  /\ response'.signed
  /\ ~response'.oversized
  /\ ingress[response'.deliveryId].firstAt = NoTime
  /\ response'.status # 429

\* C23: POST answers 200, 400, 401 or 429 (the secret is configured), and it answers
\* 200 to every well-formed, authentic, first delivery it does not rate-limit, whatever
\* its event type: ping and unrelated events are acknowledged, not rejected.
C23_StatusCodes ==
  [][PostStep =>
       /\ response'.status \in {200, 400, 401, 429}
       /\ CleanPost => response'.status = 200]_vars

\* POST has just answered a request that reached the rate-limit check.
RateCheckedStep ==
  PostStep /\ (response'.status = 429 \/ rateLimitCache' # rateLimitCache)

\* The requests of an address that passed the rate check within the last minute.
WindowCount(sourceIp) ==
  Cardinality({i \in DOMAIN accepted[sourceIp] :
                 now - accepted[sourceIp][i] <= RateLimitTtlMinutes})

\* C24: a request that reaches the rate-limit check is answered 429 exactly when 30
\* requests of its own address were accepted within the preceding minute.
C24_SlidingRateLimit ==
  [][RateCheckedStep =>
       (response'.status = 429
          <=> WindowCount(response'.sourceIp) >= maxRequestsPerMinute)]_vars

\* ============================================ the cooldown after a finished deploy

\* A ready row of the table: created at 0, its deploy (the first one, or the redeploy
\* of the reset row) finished at completedAt.
DeployedRow(projectId, prNumber, completedAt) ==
  [StoredRow(projectId, prNumber, "ready") EXCEPT
     !.startedAt = completedAt, !.completedAt = completedAt, !.updatedAt = completedAt]

\* The queued route at the moment the deploy of its only row has finished.
InitCooldown ==
  /\ projects = [p \in ProjectIds |-> [isActive |-> TRUE]]
  /\ \E k \in 0..MaxTicks :
       /\ deployments = {DeployedRow("p1", 1, TimeAt(k))}
       /\ now = TimeAt(k)
  /\ nextId = 2
  /\ deliveries = 0
  /\ deploymentQueue = <<>>
  /\ isProcessingQueue = FALSE
  /\ immediates = 0
  /\ worker = IdleWorker
  /\ comments = <<>>
  /\ failedJobs = {}
  /\ toggles = 0
  /\ decisions = <<>>
  /\ requests = <<>>
  /\ flyApps = {}
  /\ tempDirs = {}
  /\ IngressIdle
  /\ nameCall = NoNameCall
  /\ cleanupResult = NoCleanup
  /\ activations = {}
  /\ startedJobs = <<>>

SpecCooldown == InitCooldown /\ [][Next]_vars

\* C25: a create event processed less than 5 minutes after the deploy of the ready row
\* of its pull request finished is absorbed: the job returns and no row is written.
C25_CooldownAfterDeploy ==
  [][(/\ CreateDecideStep
      /\ JobLatest.status = "ready"
      /\ now - JobLatest.completedAt < CooldownMinutes)
       => /\ worker' = JobReturned
          /\ UNCHANGED <<deployments, nextId>>]_vars

\* The latest row of the job's pull request was created by an open event and has been
\* torn down by a close.
ReopenAfterClose ==
  /\ worker.job.action = "reopened"
  /\ JobLatest.status \in {"destroying", "destroyed"}
  /\ JobLatest.commitSha > 0

\* C26: after open and close, a reopen processed less than 5 minutes after the creation
\* of the closed deployment is skipped (the job returns, nothing is written), and a
\* reopen processed later ends with a new deployment row.
C26_RapidOpenCloseReopen ==
  [][/\ (CreateDecideStep /\ ReopenAfterClose
           /\ now - JobLatest.createdAt < CooldownMinutes)
          => /\ worker' = JobReturned
             /\ UNCHANGED deployments
     /\ (JobEndStep /\ ReopenAfterClose /\ worker.shouldProcess
           /\ now - JobLatest.createdAt >= CooldownMinutes)
          => \E d \in deployments' :
               /\ d.id > JobLatest.id
               /\ d.projectId = worker.job.projectId
               /\ d.prNumber = worker.job.prNumber
               /\ d.status = "pending"]_vars

\* ======================================================== the periodic cleanup
\* runCleanupJobs (part_007) over the deployment table, with projects being
\* deactivated and deleted in between.

RetentionDays == 30
MaxSweeps == 2
MinutesPerDay == 24 * 60

\* cleanupOrphanedDeployments: the live rows whose project row does not exist.
OrphanedDeployments(rows) ==
  {d \in rows : /\ d.status \in {"ready", "pending", "building", "deploying"}
                /\ d.projectId \notin DOMAIN projects}

cleanupOrphanedDeployments(rows) ==
  {IF d \in OrphanedDeployments(rows)
   THEN [d EXCEPT !.status = "destroyed", !.destroyedAt = now,
                  !.errorMessage = "Project was deleted"]
   ELSE d : d \in rows}

\* cleanupOldDeployments: the destroyed rows older than daysToKeep days.
OldDeployments(rows, daysToKeep) ==
  {d \in rows : /\ d.status = "destroyed"
                /\ d.destroyedAt # NoTime
                /\ d.destroyedAt < now - daysToKeep * MinutesPerDay}

cleanupOldDeployments(rows, daysToKeep) == rows \ OldDeployments(rows, daysToKeep)

\* The row a project has for its PR 1, as earlier runs left it.
SweepRow(projectId, status) ==
  [StoredRow(projectId, 1, status) EXCEPT
     !.id = IF projectId = "p1" THEN 1 ELSE 2,
     !.flyAppName = AppName(AppNamePrefix(projectId), 1, IF projectId = "p1" THEN 0 ELSE 1)]

\* Every project has no row or one row, in any status; the sweep runs right after the
\* rows were written or a month later.
InitSweep ==
  /\ projects = [p \in ProjectIds |-> [isActive |-> TRUE]]
  /\ \E held \in SUBSET ProjectIds :
       \E st \in [held -> DeploymentStatuses] :
         deployments = {SweepRow(p, st[p]) : p \in held}
  /\ nextId = 3
  /\ now \in {0, (RetentionDays + 1) * MinutesPerDay}
  /\ deliveries = 0
  /\ deploymentQueue = <<>>
  /\ isProcessingQueue = FALSE
  /\ immediates = 0
  /\ worker = IdleWorker
  /\ comments = <<>>
  /\ failedJobs = {}
  /\ toggles = 0
  /\ decisions = <<>>
  /\ requests = <<>>
  /\ flyApps = {}
  /\ tempDirs = {}
  /\ IngressIdle
  /\ nameCall = NoNameCall
  /\ cleanupResult = NoCleanup
  /\ activations = {}
  /\ startedJobs = <<>>

\* DELETE /api/projects/[id]: the project row goes, and with it (project_id references
\* project.id on delete cascade) the deployment rows of the project.
DeleteProject ==
  \E p \in DOMAIN projects :
    /\ projects' = [q \in DOMAIN projects \ {p} |-> projects[q]]
    /\ deployments' = {d \in deployments : d.projectId # p}
    /\ UNCHANGED <<nextId, now, deliveries, comments, toggles, queueVars, directVars,
                   ingressVars, nameCall, cleanupResult, runVars>>

\* runCleanupJobs: cleanupOrphanedDeployments, then cleanupOldDeployments(30).
RunCleanupJobs ==
  /\ cleanupResult.runs < MaxSweeps
  /\ LET swept == cleanupOrphanedDeployments(deployments)
     IN /\ deployments' = cleanupOldDeployments(swept, RetentionDays)
        /\ cleanupResult' =
             [runs |-> cleanupResult.runs + 1,
              orphaned |-> Cardinality(OrphanedDeployments(deployments)),
              old |-> Cardinality(OldDeployments(swept, RetentionDays))]
  /\ UNCHANGED <<projects, nextId, now, deliveries, comments, toggles, queueVars,
                 directVars, ingressVars, nameCall, runVars>>

NextSweep == SetProjectActive \/ DeleteProject \/ RunCleanupJobs

SpecSweep == InitSweep /\ [][NextSweep]_vars

\* runCleanupJobs has just run.
SweepStep == cleanupResult'.runs = cleanupResult.runs + 1

\* C27: a run of the sweep leaves every row that was not destroyed and whose project is
\* missing or inactive destroyed, with destroyedAt and an error message set, and leaves
\* the rows of active projects that were not destroyed as they were.
C27_SweepDestroysOrphans ==
  [][SweepStep =>
       \A d \in deployments :
         d.status # "destroyed" =>
           IF verifyProjectActive(d.projectId)
           THEN d \in deployments'
           ELSE \E e \in deployments' :
                  /\ e.id = d.id
                  /\ e.status = "destroyed"
                  /\ e.destroyedAt # NoTime
                  /\ e.errorMessage # ""]_vars

\* ======================================================== the in-memory queue
\* processQueue (part_017:26-41) with every call of it as an activation of its own,
\* and the jobs reduced to their outcome: a job returns or throws.

MaxPushes == 4

QueuedJob(delivery, action) ==
  [delivery |-> delivery, projectId |-> "p1", prNumber |-> 1,
   head |-> HeadOf(delivery), action |-> action]

\* processQueue, line 27, without the busy flag.
processQueueReturns_IgnoringFlag == Len(deploymentQueue) = 0

\* processQueue, line 27: the call returns at once.
processQueueReturns == isProcessingQueue \/ Len(deploymentQueue) = 0

\* The busy flag left set after the loop.
FlagAfterDrain_Stuck == TRUE

\* processQueue, line 40: the busy flag after the while loop.
FlagAfterDrain == FALSE

InitQueue ==
  /\ projects = [p \in ProjectIds |-> [isActive |-> TRUE]]
  /\ deployments = {}
  /\ nextId = 1
  /\ now = 0
  /\ deliveries = 0
  /\ deploymentQueue = <<>>
  /\ isProcessingQueue = FALSE
  /\ immediates = 0
  /\ worker = IdleWorker
  /\ comments = <<>>
  /\ failedJobs = {}
  /\ toggles = 0
  /\ decisions = <<>>
  /\ requests = <<>>
  /\ flyApps = {}
  /\ tempDirs = {}
  /\ IngressIdle
  /\ nameCall = NoNameCall
  /\ cleanupResult = NoCleanup
  /\ activations = {}
  /\ startedJobs = <<>>

\* POST, lines 208-210: deploymentQueue.push(deploymentJob); setImmediate(processQueue).
QueuePush ==
  \E a \in {"opened", "closed"} :
    /\ deliveries < MaxPushes
    /\ deliveries' = deliveries + 1
    /\ deploymentQueue' = Append(deploymentQueue, QueuedJob(deliveries + 1, a))
    /\ immediates' = immediates + 1
    /\ UNCHANGED <<projects, deployments, nextId, now, isProcessingQueue, worker,
                   comments, failedJobs, toggles, decisions, directVars, ingressVars,
                   nameCall, cleanupResult, runVars>>

\* A scheduled processQueue runs: it returns at once, or sets the flag, shifts the
\* first job and awaits it.
ProcessQueueEnter ==
  /\ immediates > 0
  /\ immediates' = immediates - 1
  /\ IF processQueueReturns
     THEN UNCHANGED <<isProcessingQueue, deploymentQueue, activations, startedJobs>>
     ELSE /\ isProcessingQueue' = TRUE
          /\ deploymentQueue' = Tail(deploymentQueue)
          /\ activations' = activations \cup
               {[call |-> deliveries - immediates + 1, job |-> Head(deploymentQueue)]}
          /\ startedJobs' = Append(startedJobs, Head(deploymentQueue))
  /\ UNCHANGED <<projects, deployments, nextId, now, deliveries, worker, comments,
                 failedJobs, toggles, decisions, directVars, ingressVars, nameCall,
                 cleanupResult>>

\* The awaited job returned or threw (the catch logs it): the while loop shifts and
\* awaits the next job, or ends and clears the flag.
JobSettled(act) ==
  /\ \E threw \in BOOLEAN :
       failedJobs' = IF threw THEN failedJobs \cup {act.job.delivery} ELSE failedJobs
  /\ IF Len(deploymentQueue) > 0
     THEN /\ deploymentQueue' = Tail(deploymentQueue)
          /\ activations' = (activations \ {act}) \cup
               {[call |-> act.call, job |-> Head(deploymentQueue)]}
          /\ startedJobs' = Append(startedJobs, Head(deploymentQueue))
          /\ UNCHANGED isProcessingQueue
     ELSE /\ activations' = activations \ {act}
          /\ isProcessingQueue' = FlagAfterDrain
          /\ UNCHANGED <<deploymentQueue, startedJobs>>
  /\ UNCHANGED <<projects, deployments, nextId, now, deliveries, immediates, worker,
                 comments, toggles, decisions, directVars, ingressVars, nameCall,
                 cleanupResult>>

JobSettles == \E act \in activations : JobSettled(act)

NextQueue == QueuePush \/ ProcessQueueEnter \/ JobSettles

SpecQueue == InitQueue /\ [][NextQueue]_vars

\* The event loop runs every scheduled callback, and every job terminates.
SpecQueueLive == SpecQueue /\ WF_vars(ProcessQueueEnter) /\ WF_vars(JobSettles)

IsQueued(n) == \E i \in DOMAIN deploymentQueue : deploymentQueue[i].delivery = n

IsExecuted(n) ==
  /\ \E i \in DOMAIN startedJobs : startedJobs[i].delivery = n
  /\ \A act \in activations : act.job.delivery # n

\* C29: every queued job is eventually started and run to its end, and whenever the
\* queue is empty and no job is running the busy flag is off.
C29_EveryJobExecuted ==
  /\ \A n \in 1..MaxPushes : IsQueued(n) ~> IsExecuted(n)
  /\ [](deploymentQueue = <<>> /\ activations = {} => ~isProcessingQueue)

\* All pushed jobs were executed, one after a job that threw, by fewer calls than
\* pushes: a call is still scheduled.
C29_Witness ==
  /\ deliveries = MaxPushes
  /\ \A n \in 1..MaxPushes : IsExecuted(n)
  /\ \E n \in 1..(MaxPushes - 1) : n \in failedJobs
  /\ immediates > 0
  /\ ~isProcessingQueue

\* ======================================================== the replay cache when full
\* The ingress an hour's traffic has filled: deliveryCache holds max entries.

\* The arrival that left the oldest entry of the cache: a request that was processed,
\* or one that was answered 401.
FirstArrival(wasProcessed) ==
  [intact |-> IF wasProcessed THEN 1 ELSE 0, other |-> IF wasProcessed THEN 0 ELSE 1,
   processed |-> IF wasProcessed THEN 1 ELSE 0, firstAt |-> 0, lastAt |-> 0,
   cachedAt |-> 0]

\* Delivery id 1 was cached in the running minute and deliveryCacheMax - 1 deliveries
\* with other ids were cached after it, or the cache is empty.
InitReplay ==
  /\ projects = [p \in ProjectIds |-> [isActive |-> TRUE]]
  /\ deployments = {}
  /\ nextId = 1
  /\ now = 0
  /\ deliveries = 0
  /\ deploymentQueue = <<>>
  /\ isProcessingQueue = FALSE
  /\ immediates = 0
  /\ worker = IdleWorker
  /\ comments = <<>>
  /\ failedJobs = {}
  /\ toggles = 0
  /\ decisions = <<>>
  /\ requests = <<>>
  /\ flyApps = {}
  /\ tempDirs = {}
  /\ \E full \in BOOLEAN, wasProcessed \in BOOLEAN :
       /\ ~full => ~wasProcessed
       /\ deliveryCache =
            [i \in DeliveryIds |->
               IF full /\ i = 1
               THEN [value |-> 1, at |-> 0, newer |-> deliveryCacheMax - 1]
               ELSE NoDelivery]
       /\ ingress =
            [i \in DeliveryIds |->
               IF full /\ i = 1 THEN FirstArrival(wasProcessed) ELSE NoArrivals]
  /\ rateLimitCache = [a \in SourceIps |-> NoEntry]
  /\ accepted = [a \in SourceIps |-> <<>>]
  /\ response = NoResponse
  /\ nameCall = NoNameCall
  /\ cleanupResult = NoCleanup
  /\ activations = {}
  /\ startedJobs = <<>>

SpecReplay == InitReplay /\ [][NextIngress]_vars

\* A request carries a delivery id that was written to the replay cache, by a request
\* that got past the size and event-type checks, no longer ago than the ttl.
RedeliveryStep ==
  /\ deliveries' = deliveries + 1
  /\ ingress[response'.deliveryId].cachedAt # NoTime
  /\ now - ingress[response'.deliveryId].cachedAt <= ReplayTtlMinutes

\* C30: once a request with a delivery id got past the size and event-type checks,
\* whatever it was answered, every later request with that id within the ttl is answered
\* 400 and enqueues no job.
C30_CachedBeforeOtherChecks ==
  [][RedeliveryStep =>
       /\ response'.status = 400
       /\ deploymentQueue' = deploymentQueue]_vars

====
